---- MODULE Spec2Model ----
(***************************************************************************)
(* Model of the web-frontend MCP demo.                                     *)
(*                                                                         *)
(*  - the backend gateway (Hono routes POST /mcp and GET /mcp, the         *)
(*    `transports` map and getOrCreateTransport);                          *)
(*  - the frontend tool-calling loops chatWithOpenAITools,                 *)
(*    chatWithGeminiTools and chatWithClaudeTools.                         *)
(*                                                                         *)
(* The two parts share no state; GatewaySpec runs the gateway and LoopSpec *)
(* runs one conversation turn of a provider loop.                          *)
(***************************************************************************)
EXTENDS Integers, Sequences, FiniteSets, TLC

VARIABLES
    transports,     \* own properties of the `transports` object: sid -> transport (0: none)
    constructed,    \* every `new StreamableHTTPServerTransport`, in construction order
    uuidNext,       \* number of identifiers randomUUID() has returned
    reqs,           \* the HTTP requests and the position of each one's handler
    provider,       \* which chatWith...Tools function runs
    apiKey,         \* whether the provider's VITE_..._API_KEY is set
    history,        \* the `history` argument (the UI's earlier messages)
    lpc,            \* position of the run: start, vendor, tool, done
    conv,           \* `req` / `claudeMsgs`: the conversation sent to the vendor
    depth,          \* the Claude loop's counter
    vendorCalls,    \* fetch calls issued to the vendor
    toolCalls,      \* callRandomIntTool calls started
    toolHops,       \* hops in which at least one tool call was started
    hopTools,       \* tool calls started for the latest vendor response
    res,            \* the latest vendor response
    pending,        \* the tool invocations of the current hop
    hopLog,         \* per vendor response: the request sent, the response, the tool calls
    outcome,        \* what the run returned or threw
    tpc,            \* position of a tools/call on the MCP server: idle, body, done
    tname,          \* the tool name of the call
    targ,           \* the `max` argument of the call as sent
    tmax,           \* `max` as the tool body receives it
    tresult,        \* what the call produced
    rngBounds,      \* the bounds crypto.randomInt was called with
    messages,       \* App: the `messages` state
    input,          \* App: the `input` state
    loading,        \* App: the `loading` state
    upc,            \* position of handleSubmit: idle, chatting
    turn,           \* the latest turn: messages before it, its input, how it ended
    endpoint,       \* import.meta.env.VITE_MCP_ENDPOINT
    clientPromise,  \* the module variable: null or set (it is only ever set once)
    promiseState,   \* the promise made by connect(...).then(...): none, pending, fulfilled, rejected
    promiseClient,  \* the client that promise resolves to
    clientsMade,    \* number of `new MCPClient`
    connects,       \* number of client.connect calls
    callers         \* the getMcpClient calls and what each has received

gwVars == <<transports, constructed, uuidNext, reqs>>

loopVars == <<provider, apiKey, history, lpc, conv, depth, vendorCalls,
              toolCalls, toolHops, hopTools, res, pending, hopLog, outcome>>

toolVars == <<tpc, tname, targ, tmax, tresult, rngBounds>>

uiVars == <<messages, input, loading, upc, turn>>

clientVars == <<endpoint, clientPromise, promiseState, promiseClient,
                clientsMade, connects, callers>>

vars == <<transports, constructed, uuidNext, reqs, provider, apiKey, history,
          lpc, conv, depth, vendorCalls, toolCalls, toolHops, hopTools, res,
          pending, hopLog, outcome, tpc, tname, targ, tmax, tresult, rngBounds,
          messages, input, loading, upc, turn, endpoint, clientPromise,
          promiseState, promiseClient, clientsMade, connects, callers>>

----------------------------------------------------------------------------
(* Bounds *)

\* number of HTTP requests the gateway receives
MaxReq == 2

\* number of identifiers randomUUID() may allocate
MaxUuid == 1

\* number of vendor requests one run may issue (the OpenAI and Gemini loops
\* have no limit of their own)
MaxVendorCalls == 4

\* largest magnitude of an integer `max` argument sent to the randomInt tool
MaxMax == 12

\* number of conversation turns submitted in the UI
MaxTurns == 3

\* number of getMcpClient calls
MaxCalls == 4

----------------------------------------------------------------------------
(* Gateway: identifiers *)

\* identifiers a client may present without the gateway having allocated them
ClientIds == {"a", "constructor"}

\* property names that every object literal `{}` inherits from Object.prototype:
\* `transports[k]` is truthy for them although nothing was ever stored under k
ObjectPrototypeKeys == {"constructor"}

\* the values randomUUID() returns, in order (distinct from each other and
\* from anything a client can present before it was allocated)
UuidPool == <<"u1", "u2", "u3", "u4">>

Uuids == {UuidPool[i] : i \in 1..MaxUuid}

Sids == ClientIds \cup Uuids

\* a missing header / query parameter; `?? ''` and `!sid` treat "" alike
Absent == ""

ReqIds == 1..MaxReq

\* value of an expression that evaluates to undefined
Undefined == 0

\* value of `transports[k]` for an inherited key (a function of Object.prototype,
\* truthy, without a handleRequest method)
Inherited == -1

\* transports[sid] as JavaScript evaluates it on a plain object
TransportsGet(reg, sid) ==
    IF reg[sid] # Undefined THEN reg[sid]
    ELSE IF sid \in ObjectPrototypeKeys THEN Inherited
    ELSE Undefined

\* getOrCreateTransport(sessionId), called on behalf of request r (r is only
\* recorded with the constructed transport); runs without suspension
getOrCreateTransport_NoCheck(reg, con, sid, r) ==
    LET t == Len(con) + 1
    IN  [reg |-> [reg EXCEPT ![sid] = t],
         con |-> Append(con, [sid |-> sid, by |-> r]),
         t   |-> t]

getOrCreateTransport_NoStore(reg, con, sid, r) ==
    IF TransportsGet(reg, sid) = Undefined
    THEN LET t == Len(con) + 1
         IN  [reg |-> reg,
              con |-> Append(con, [sid |-> sid, by |-> r]),
              t   |-> t]
    ELSE [reg |-> reg, con |-> con, t |-> TransportsGet(reg, sid)]

getOrCreateTransport_Evicts(reg, con, sid, r) ==
    IF TransportsGet(reg, sid) = Undefined
    THEN LET t == Len(con) + 1
         IN  [reg |-> [s \in DOMAIN reg |-> IF s = sid THEN t ELSE Undefined],
              con |-> Append(con, [sid |-> sid, by |-> r]),
              t   |-> t]
    ELSE [reg |-> reg, con |-> con, t |-> TransportsGet(reg, sid)]

getOrCreateTransport(reg, con, sid, r) ==
    IF TransportsGet(reg, sid) = Undefined
    THEN LET t == Len(con) + 1
         IN  [reg |-> [reg EXCEPT ![sid] = t],
              con |-> Append(con, [sid |-> sid, by |-> r]),
              t   |-> t]
    ELSE [reg |-> reg, con |-> con, t |-> TransportsGet(reg, sid)]

----------------------------------------------------------------------------
(* Gateway: requests *)

IdleReq ==
    [pc |-> "idle", verb |-> "none", header |-> Absent, query |-> Absent,
     body |-> "none", sid |-> Absent, tr |-> Undefined, resp |-> "none",
     sidHeader |-> Absent, fwdHeader |-> Absent, fresh |-> FALSE,
     known |-> FALSE, raw |-> "none", reply |-> "none"]

\* identifiers a client can put in a request: its own, or one the gateway
\* has already handed out
Presentable == {Absent} \cup ClientIds \cup {UuidPool[i] : i \in 1..uuidNext}

\* requests are numbered in arrival order
NextToArrive(r) ==
    /\ reqs[r].pc = "idle"
    /\ \A q \in ReqIds : q < r => reqs[q].pc # "idle"

HeaderlessPosts ==
    {q \in ReqIds : reqs[q].verb = "POST" /\ reqs[q].header = Absent}

\* app.post('/mcp'), up to the suspension in `await c.req.json()`
PostArrive(r, h, b) ==
    /\ NextToArrive(r)
    /\ h = Absent => Cardinality(HeaderlessPosts) < MaxUuid
    /\ reqs' = [reqs EXCEPT ![r] =
                  [IdleReq EXCEPT !.pc = "body", !.verb = "POST", !.header = h,
                                  !.body = b, !.raw = b,
                                  !.fresh = (h # Absent /\ transports[h] = Undefined)]]
    /\ UNCHANGED <<transports, constructed, uuidNext>>
    /\ UNCHANGED <<loopVars, toolVars, uiVars, clientVars>>

\* app.post('/mcp') from the resumption after the body was read to the
\* call of handleRequest: the sid is resolved (allocated when absent),
\* getOrCreateTransport runs, handleRequest is called on its result
PostResume(r) ==
    /\ reqs[r].pc = "body"
    /\ UNCHANGED <<loopVars, toolVars, uiVars, clientVars>>
    /\ LET alloc == reqs[r].header = Absent
           sid   == IF alloc THEN UuidPool[uuidNext + 1] ELSE reqs[r].header
           got   == getOrCreateTransport(transports, constructed, sid, r)
           base  == [reqs[r] EXCEPT
                       !.sid = sid,
                       !.body = IF reqs[r].body = "malformed" THEN "{}" ELSE @,
                       !.sidHeader = IF alloc THEN sid ELSE Absent,
                       !.fwdHeader = reqs[r].header,
                       !.known = (transports[sid] # Undefined)]
       IN  /\ uuidNext' = IF alloc THEN uuidNext + 1 ELSE uuidNext
           /\ transports' = got.reg
           /\ constructed' = got.con
           /\ reqs' = [reqs EXCEPT ![r] =
                         IF got.t = Inherited
                         THEN \* (function Object).handleRequest is not a function
                              [base EXCEPT !.pc = "done", !.resp = "error500"]
                         ELSE [base EXCEPT !.pc = "handling", !.tr = got.t]]

\* (url.searchParams.get('session') || c.req.header('mcp-session-id')) ?? undefined
GetSessionId_HeaderWins(q, h) == IF h # Absent THEN h ELSE q

GetSessionId(q, h) == IF q # Absent THEN q ELSE h

\* app.get('/mcp'), from arrival to the Bad Session reply or to the call
\* of handleRequest; it does not suspend on the way
GetArrive_Creates(r, h, q) ==
    /\ NextToArrive(r)
    /\ UNCHANGED <<loopVars, toolVars, uiVars, clientVars>>
    /\ LET sid  == GetSessionId(q, h)
           got  == getOrCreateTransport(transports, constructed, sid, r)
           base == [IdleReq EXCEPT !.verb = "GET", !.header = h, !.query = q,
                                   !.sid = sid,
                                   !.known = (sid # Absent /\ transports[sid] # Undefined)]
       IN  IF sid = Absent
           THEN /\ reqs' = [reqs EXCEPT ![r] =
                              [base EXCEPT !.pc = "done", !.resp = "badSession400"]]
                /\ UNCHANGED <<transports, constructed, uuidNext>>
           ELSE /\ transports' = got.reg
                /\ constructed' = got.con
                /\ reqs' = [reqs EXCEPT ![r] =
                              IF got.t = Inherited
                              THEN [base EXCEPT !.pc = "done", !.resp = "error500"]
                              ELSE [base EXCEPT !.pc = "handling", !.tr = got.t,
                                                !.fwdHeader = sid]]
                /\ UNCHANGED uuidNext

GetArrive(r, h, q) ==
    /\ NextToArrive(r)
    /\ LET sid  == GetSessionId(q, h)
           base == [IdleReq EXCEPT !.verb = "GET", !.header = h, !.query = q,
                                   !.sid = sid,
                                   !.known = (sid # Absent /\ transports[sid] # Undefined)]
       IN  reqs' = [reqs EXCEPT ![r] =
             IF sid = Absent \/ TransportsGet(transports, sid) = Undefined
             THEN [base EXCEPT !.pc = "done", !.resp = "badSession400"]
             ELSE IF TransportsGet(transports, sid) = Inherited
             THEN \* (function Object).handleRequest is not a function
                  [base EXCEPT !.pc = "done", !.resp = "error500"]
             ELSE [base EXCEPT !.pc = "handling", !.fwdHeader = sid,
                               !.tr = TransportsGet(transports, sid)]]
    /\ UNCHANGED <<transports, constructed, uuidNext>>
    /\ UNCHANGED <<loopVars, toolVars, uiVars, clientVars>>

\* what the transport writes for the forwarded body: {} is no JSON-RPC
\* message and is answered with a protocol error; a JSON body is dispatched
\* to the server or rejected; a GET (no body) opens the event stream
TransportReplies(body) ==
    IF body = "{}" THEN {"protocolError"}
    ELSE IF body = "json" THEN {"dispatched", "protocolError"}
    ELSE {"stream"}

\* the awaited transport.handleRequest(...) resolves: toFetchResponse(res)
HandleRequestReturn(r, rep) ==
    /\ reqs[r].pc = "handling"
    /\ rep \in TransportReplies(reqs[r].body)
    /\ reqs' = [reqs EXCEPT ![r].pc = "done", ![r].resp = "transport",
                            ![r].reply = rep]
    /\ UNCHANGED <<transports, constructed, uuidNext>>
    /\ UNCHANGED <<loopVars, toolVars, uiVars, clientVars>>

\* the awaited transport.handleRequest(...) rejects: the handler throws and
\* Hono's error handler answers 500
HandleRequestThrow_NoResponse(r) ==
    /\ reqs[r].pc = "handling"
    /\ reqs' = [reqs EXCEPT ![r].pc = "done"]
    /\ UNCHANGED <<transports, constructed, uuidNext>>
    /\ UNCHANGED <<loopVars, toolVars, uiVars, clientVars>>

HandleRequestThrow(r) ==
    /\ reqs[r].pc = "handling"
    /\ reqs' = [reqs EXCEPT ![r].pc = "done", ![r].resp = "error500"]
    /\ UNCHANGED <<transports, constructed, uuidNext>>
    /\ UNCHANGED <<loopVars, toolVars, uiVars, clientVars>>

GatewayInit ==
    /\ transports = [s \in Sids |-> Undefined]
    /\ constructed = <<>>
    /\ uuidNext = 0
    /\ reqs = [r \in ReqIds |-> IdleReq]

GatewayNext ==
    \/ \E r \in ReqIds, h \in Presentable, b \in {"json", "malformed"} :
          PostArrive(r, h, b)
    \/ \E r \in ReqIds : PostResume(r)
    \/ \E r \in ReqIds, h \in Presentable, q \in Presentable : GetArrive(r, h, q)
    \/ \E r \in ReqIds, rep \in {"dispatched", "protocolError", "stream"} :
          HandleRequestReturn(r, rep)
    \/ \E r \in ReqIds : HandleRequestThrow(r)

----------------------------------------------------------------------------
(* Tool-calling loops: data *)

Providers == {"OPENAI", "GEMINI", "CLAUDE"}

\* `for (let depth = 0; depth < 3; depth++)` of chatWithClaudeTools
ClaudeDepthLimit == 3

\* null / undefined / absent text
Null == "<null>"

NoResponseText == "(no response)"

TextPart(t) == [type |-> "text", text |-> t, id |-> "", name |-> "", num |-> 0]

\* a tool-invocation request in a vendor response: an OpenAI tool_call, a
\* Gemini functionCall part (no id), a Claude tool_use block
ToolPart(i, n, m) == [type |-> "tool", text |-> "", id |-> i, name |-> n, num |-> m]

\* Claude's {type: "tool_result", tool_use_id, content}
ToolResultPart(i, t) ==
    [type |-> "tool_result", text |-> t, id |-> i, name |-> "", num |-> 0]

\* Claude's toolResults entry of a tool_use that is not randomInt: undefined
UndefinedPart == [type |-> "undefined", text |-> "", id |-> "", name |-> "", num |-> 0]

\* the `max` of an arguments object that has none
MaxOmitted == -1

\* the serialized arguments of an OpenAI tool call asking for {max: 10}
ArgsJson == "{\"max\":10}"

\* JSON.parse(call.function.arguments || "{}") for the argument strings the
\* vendor may send; a string that is not JSON makes JSON.parse throw
JsonParseArgs(raw) ==
    IF raw \in {"", "{}"} THEN [ok |-> TRUE, max |-> MaxOmitted]
    ELSE IF raw = ArgsJson THEN [ok |-> TRUE, max |-> 10]
    ELSE [ok |-> FALSE, max |-> MaxOmitted]

Digits == <<"0", "1", "2", "3", "4", "5", "6", "7", "8", "9">>

RECURSIVE ToStr(_)
\* String(n) of a non-negative integer: its decimal digits
ToStr(n) == IF n < 10 THEN Digits[n + 1]
            ELSE ToStr(n \div 10) \o Digits[(n % 10) + 1]

\* Number(rand) for the texts the tool service can return
NumberOf(t) == IF t = "7" THEN 7 ELSE 0

\* Gemini's {functionResponse: {name: "randomInt", response: {value: Number(rand)}}}
FunctionResponsePart(t) ==
    [type |-> "functionResponse", text |-> "", id |-> "", name |-> "randomInt",
     num |-> NumberOf(t)]

Msg(role, text, parts, tok) ==
    [role |-> role, text |-> text, parts |-> parts, tok |-> tok]

Response(ok, present, content, parts, stop) ==
    [ok |-> ok, present |-> present, content |-> content, parts |-> parts,
     stop |-> stop]

NoRes == Response(TRUE, FALSE, Null, <<>>, "none")

IsTool(p) == p.type = "tool"

IsText(p) == p.type = "text"

ToolParts(r) == SelectSeq(r.parts, IsTool)

\* the tool-invocation parts a vendor may put in one response
ToolLists(withId) ==
    LET T1 == ToolPart(IF withId THEN "c1" ELSE "", "randomInt", 10)
        T2 == ToolPart(IF withId THEN "c2" ELSE "", "randomInt", 10)
        X  == ToolPart(IF withId THEN "c3" ELSE "", "other", 10)
    IN  {<<T1>>, <<X>>, <<T1, T2>>, <<T1, X>>, <<X, T1>>}

\* OpenAI tool_calls: the arguments are a JSON string
OpenAIToolLists ==
    {[k \in 1..Len(ts) |-> [ts[k] EXCEPT !.text = ArgsJson, !.num = 0]] :
        ts \in ToolLists(TRUE)}
    \cup {<<[ToolPart("c1", "randomInt", 0) EXCEPT !.text = raw]>> :
             raw \in {"", "{"}}

TextLists == {<<>>, <<TextPart("")>>, <<TextPart("hi")>>}

\* the vendor responses the run may receive; a response that is not ok
\* stands for a non-OK status with that body text or a rejected fetch with
\* that message
Responses(p) ==
    IF p = "OPENAI" THEN
        {Response(FALSE, FALSE, "quota exceeded", <<>>, "none"),
         Response(FALSE, FALSE, "Failed to fetch", <<>>, "none"),
         Response(TRUE, FALSE, Null, <<>>, "none")}
        \cup {Response(TRUE, TRUE, c, <<>>, "none") : c \in {Null, "", "hi"}}
        \cup {Response(TRUE, TRUE, Null, ts, "none") : ts \in OpenAIToolLists}
    ELSE IF p = "GEMINI" THEN
        {Response(FALSE, FALSE, "quota exceeded", <<>>, "none"),
         Response(FALSE, FALSE, "Failed to fetch", <<>>, "none"),
         Response(TRUE, FALSE, Null, <<>>, "none")}
        \cup {Response(TRUE, TRUE, Null, ts, "none") : ts \in TextLists}
        \cup {Response(TRUE, TRUE, Null, ts, "none") : ts \in ToolLists(FALSE)}
        \cup {Response(TRUE, TRUE, Null, <<TextPart("hi")>> \o ts, "none") :
                 ts \in {<<ToolPart("", "randomInt", 10)>>}}
    ELSE
        {Response(FALSE, FALSE, "quota exceeded", <<>>, "none"),
         Response(FALSE, FALSE, "Failed to fetch", <<>>, "none")}
        \cup {Response(TRUE, TRUE, Null, ts, "end_turn") : ts \in TextLists}
        \cup {Response(TRUE, TRUE, Null, ts, "tool_use") :
                 ts \in ToolLists(TRUE) \cup {<<>>}}
        \cup {Response(TRUE, TRUE, Null, <<TextPart("hi")>> \o ts, "tool_use") :
                 ts \in {<<ToolPart("c1", "randomInt", 10)>>}}
        \cup {Response(TRUE, TRUE, Null, <<ToolPart("c3", "other", 10)>>, "end_turn")}

\* what callRandomIntTool can do: return the text, return "" (no content),
\* or reject (getMcpClient or callTool failed)
ToolOutcomes ==
    {[ok |-> TRUE, text |-> "7"], [ok |-> TRUE, text |-> ""],
     [ok |-> FALSE, text |-> "MCP error"]}

Histories ==
    {<<>>, <<[role |-> "user", content |-> "q0"],
             [role |-> "assistant", content |-> "a0"]>>}

UserPrompt == "p"

RECURSIVE JoinText(_)
\* parts.map(p => p.text).join("")
JoinText(ps) == IF ps = <<>> THEN "" ELSE Head(ps).text \o JoinText(Tail(ps))

RECURSIVE JoinNames(_)
\* us.map(u => u.name).join(", ")
JoinNames(us) ==
    IF us = <<>> THEN ""
    ELSE IF Len(us) = 1 THEN us[1].name
    ELSE us[1].name \o ", " \o JoinNames(Tail(us))

HasText(p) == p.type = "text" /\ p.text # ""

IsRandomInt(p) == p.type = "tool" /\ p.name = "randomInt"

Running_NoArgs(u) == [id |-> u.id, name |-> u.name, num |-> MaxOmitted,
                      status |-> "running", text |-> ""]

Running(u) == [id |-> u.id, name |-> u.name, num |-> u.num,
               status |-> "running", text |-> ""]

Skipped(u) == [id |-> u.id, name |-> u.name, num |-> u.num,
               status |-> "skipped", text |-> ""]

Throw(t) == [kind |-> "throw", text |-> t, calls |-> <<>>]

Return(t) == [kind |-> "return", text |-> t, calls |-> <<>>]

CallTools(cs) == [kind |-> "tool", text |-> "", calls |-> cs]

\* the initial conversation of each loop
SeedConversation(p, h, prompt) ==
    LET hist == [i \in 1..Len(h) |-> Msg(h[i].role, h[i].content, <<>>, "")]
    IN  IF p = "OPENAI"
        THEN <<Msg("system", "You are a helpful assistant.", <<>>, "")>>
                \o hist \o <<Msg("user", prompt, <<>>, "")>>
        ELSE hist \o <<Msg("user", prompt, <<>>, "")>>

ApiKeyName(p) ==
    IF p = "OPENAI" THEN "VITE_OPENAI_API_KEY"
    ELSE IF p = "GEMINI" THEN "VITE_GEMINI_API_KEY"
    ELSE "VITE_CLAUDE_API_KEY"

----------------------------------------------------------------------------
(* Tool-calling loops: what each loop does with a vendor response *)

\* chatWithOpenAITools, from the fetch result to the tool call or the return
OpenAIStep_AllCalls(r) ==
    IF ~r.ok THEN Throw(r.content)
    ELSE IF ~r.present THEN Throw("No response from OpenAI")
    ELSE IF Len(ToolParts(r)) > 0 /\ ToolParts(r)[1].name = "randomInt"
    THEN LET args == JsonParseArgs(ToolParts(r)[1].text)
         IN  IF ~args.ok THEN Throw("Unexpected end of JSON input")
             ELSE CallTools([i \in 1..Len(ToolParts(r)) |->
                               [Running(ToolParts(r)[i]) EXCEPT !.num = args.max]])
    ELSE Return(IF r.content = Null THEN NoResponseText ELSE r.content)

OpenAIStep(r) ==
    IF ~r.ok THEN Throw(r.content)
    ELSE IF ~r.present THEN Throw("No response from OpenAI")
    ELSE IF Len(ToolParts(r)) > 0 /\ ToolParts(r)[1].name = "randomInt"
    THEN LET call == ToolParts(r)[1]
             args == JsonParseArgs(call.text)
         IN  IF ~args.ok THEN Throw("Unexpected end of JSON input")
             ELSE CallTools(<<[Running(call) EXCEPT !.num = args.max]>>)
    ELSE Return(IF r.content = Null THEN NoResponseText ELSE r.content)

\* chatWithGeminiTools, from the fetch result to the tool call or the return
GeminiStep(r) ==
    IF ~r.ok THEN Throw(r.content)
    ELSE IF ~r.present THEN Throw("No response from Gemini")
    ELSE IF Len(ToolParts(r)) > 0 /\ ToolParts(r)[1].name = "randomInt"
    THEN CallTools(<<Running(ToolParts(r)[1])>>)
    ELSE LET answer == JoinText(SelectSeq(r.parts, HasText))
         IN  Return(IF answer = "" THEN NoResponseText ELSE answer)

\* chatWithClaudeTools, from the fetch result to Promise.all or the return
ClaudeStep_ChecksFirst(r) ==
    IF ~r.ok THEN Throw(r.content)
    ELSE IF r.stop = "tool_use"
    THEN IF Len(ToolParts(r)) = 0 THEN Throw("tool_use block missing")
         ELSE IF \E i \in 1..Len(ToolParts(r)) : ToolParts(r)[i].name # "randomInt"
         THEN Throw("Unhandled tool(s): other")
         ELSE CallTools([i \in 1..Len(ToolParts(r)) |-> Running(ToolParts(r)[i])])
    ELSE LET answer == JoinText(SelectSeq(r.parts, IsText))
         IN  Return(IF answer = "" THEN NoResponseText ELSE answer)

ClaudeStep(r) ==
    IF ~r.ok THEN Throw(r.content)
    ELSE IF r.stop = "tool_use"
    THEN IF Len(ToolParts(r)) = 0 THEN Throw("tool_use block missing")
         ELSE CallTools([i \in 1..Len(ToolParts(r)) |->
                           IF ToolParts(r)[i].name = "randomInt"
                           THEN Running(ToolParts(r)[i])
                           ELSE Skipped(ToolParts(r)[i])])
    ELSE LET answer == JoinText(SelectSeq(r.parts, IsText))
         IN  Return(IF answer = "" THEN NoResponseText ELSE answer)

Step(p, r) ==
    IF p = "OPENAI" THEN OpenAIStep(r)
    ELSE IF p = "GEMINI" THEN GeminiStep(r)
    ELSE ClaudeStep(r)

----------------------------------------------------------------------------
(* Tool-calling loops: after the tool calls of a hop *)

IsDefined(p) == p.type # "undefined"

\* Claude's toolResults: one entry per tool_use, undefined for other tools
ClaudeToolResults(pend) ==
    [i \in 1..Len(pend) |->
        IF pend[i].status = "ok" THEN ToolResultPart(pend[i].id, pend[i].text)
        ELSE UndefinedPart]

\* toolUses.filter(u => !validResults.find(v => v.tool_use_id === u.id))
ClaudeUnhandled(r, pend) ==
    LET valid == SelectSeq(ClaudeToolResults(pend), IsDefined)
        Unanswered(u) == \A k \in 1..Len(valid) : valid[k].id # u.id
    IN  SelectSeq(ToolParts(r), Unanswered)

\* the messages a loop appends to the conversation once the hop's tool
\* calls have all returned
Appended_TokenLost(p, r, pend) ==
    IF p = "OPENAI"
    THEN <<Msg("assistant", r.content, ToolParts(r), ""),
           Msg("tool", pend[1].text, <<>>, "")>>
    ELSE IF p = "GEMINI"
    THEN <<Msg("model", Null, <<ToolParts(r)[1]>>, ""),
           Msg("tool", Null, <<FunctionResponsePart(pend[1].text)>>, "")>>
    ELSE <<Msg("assistant", Null, r.parts, ""),
           Msg("user", Null,
               [i \in 1..Len(pend) |-> ToolResultPart("", pend[i].text)], "")>>

Appended(p, r, pend) ==
    IF p = "OPENAI"
    THEN <<Msg("assistant", r.content, ToolParts(r), ""),
           Msg("tool", pend[1].text, <<>>, pend[1].id)>>
    ELSE IF p = "GEMINI"
    THEN <<Msg("model", Null, <<ToolParts(r)[1]>>, ""),
           Msg("tool", Null, <<FunctionResponsePart(pend[1].text)>>, "")>>
    ELSE <<Msg("assistant", Null, r.parts, ""),
           Msg("user", Null, ClaudeToolResults(pend), "")>>

\* from the return of the awaited tool calls to the next fetch or the throw:
\* [kind, text, conv, depth]
AfterTools_Replaces(p, cv, r, pend, d) ==
    IF p = "CLAUDE" /\ Len(ClaudeUnhandled(r, pend)) > 0
    THEN [kind |-> "throw", conv |-> cv, depth |-> d,
          text |-> "Unhandled tool(s): " \o JoinNames(ClaudeUnhandled(r, pend))]
    ELSE IF p = "CLAUDE" /\ d + 1 >= ClaudeDepthLimit
    THEN [kind |-> "throw", conv |-> Appended(p, r, pend), depth |-> d + 1,
          text |-> "Too many tool-calling hops"]
    ELSE [kind |-> "fetch", conv |-> Appended(p, r, pend),
          depth |-> IF p = "CLAUDE" THEN d + 1 ELSE d, text |-> ""]

AfterTools_NoLimit(p, cv, r, pend, d) ==
    IF p = "CLAUDE" /\ Len(ClaudeUnhandled(r, pend)) > 0
    THEN [kind |-> "throw", conv |-> cv, depth |-> d,
          text |-> "Unhandled tool(s): " \o JoinNames(ClaudeUnhandled(r, pend))]
    ELSE [kind |-> "fetch", conv |-> cv \o Appended(p, r, pend),
          depth |-> IF p = "CLAUDE" THEN d + 1 ELSE d, text |-> ""]

AfterTools(p, cv, r, pend, d) ==
    IF p = "CLAUDE" /\ Len(ClaudeUnhandled(r, pend)) > 0
    THEN [kind |-> "throw", conv |-> cv, depth |-> d,
          text |-> "Unhandled tool(s): " \o JoinNames(ClaudeUnhandled(r, pend))]
    ELSE IF p = "CLAUDE" /\ d + 1 >= ClaudeDepthLimit
    THEN [kind |-> "throw", conv |-> cv \o Appended(p, r, pend), depth |-> d + 1,
          text |-> "Too many tool-calling hops"]
    ELSE [kind |-> "fetch", conv |-> cv \o Appended(p, r, pend),
          depth |-> IF p = "CLAUDE" THEN d + 1 ELSE d, text |-> ""]

----------------------------------------------------------------------------
(* Tool-calling loops: actions *)

NoOutcome == [kind |-> "none", text |-> ""]

\* entry of chatWith...Tools up to the first fetch
Start_FetchFirst ==
    /\ lpc = "start"
    /\ conv' = SeedConversation(provider, history, UserPrompt)
    /\ vendorCalls' = vendorCalls + 1
    /\ lpc' = "vendor"
    /\ UNCHANGED outcome
    /\ UNCHANGED <<gwVars, toolVars, uiVars, clientVars>>
    /\ UNCHANGED <<provider, apiKey, history, depth, toolCalls, toolHops,
                   hopTools, res, pending, hopLog>>

Start ==
    /\ lpc = "start"
    /\ IF ~apiKey
       THEN /\ outcome' = [kind |-> "error",
                           text |-> ApiKeyName(provider) \o " is not set"]
            /\ lpc' = "done"
            /\ UNCHANGED <<conv, vendorCalls>>
       ELSE /\ conv' = SeedConversation(provider, history, UserPrompt)
            /\ vendorCalls' = vendorCalls + 1
            /\ lpc' = "vendor"
            /\ UNCHANGED outcome
    /\ UNCHANGED <<gwVars, toolVars, uiVars, clientVars>>
    /\ UNCHANGED <<provider, apiKey, history, depth, toolCalls, toolHops,
                   hopTools, res, pending, hopLog>>

\* the awaited fetch returns r; the loop body runs to its next suspension
VendorReply(r) ==
    /\ lpc = "vendor"
    /\ res' = r
    /\ hopLog' = Append(hopLog, [sent |-> conv, res |-> r, calls |-> <<>>])
    /\ LET st == Step(provider, r)
           started == {i \in 1..Len(st.calls) : st.calls[i].status = "running"}
       IN  /\ pending' = st.calls
           /\ hopTools' = Cardinality(started)
           /\ toolCalls' = toolCalls + Cardinality(started)
           /\ toolHops' = IF started # {} THEN toolHops + 1 ELSE toolHops
           /\ IF st.kind = "tool"
              THEN lpc' = "tool" /\ UNCHANGED outcome
              ELSE /\ lpc' = "done"
                   /\ outcome' = [kind |-> IF st.kind = "return" THEN "answer"
                                           ELSE "error",
                                  text |-> st.text]
    /\ UNCHANGED <<gwVars, toolVars, uiVars, clientVars>>
    /\ UNCHANGED <<provider, apiKey, history, conv, depth, vendorCalls>>

\* one callRandomIntTool call settles
ToolReturn(i, out) ==
    /\ lpc = "tool"
    /\ i \in 1..Len(pending)
    /\ pending[i].status = "running"
    /\ pending' = [pending EXCEPT ![i].status = IF out.ok THEN "ok" ELSE "fail",
                                  ![i].text = out.text]
    /\ UNCHANGED <<gwVars, toolVars, uiVars, clientVars>>
    /\ UNCHANGED <<provider, apiKey, history, lpc, conv, depth, vendorCalls,
                   toolCalls, toolHops, hopTools, res, hopLog, outcome>>

\* as ToolsJoin, but a rejected tool call is answered by asking the vendor again
ToolsJoin_Retry ==
    /\ lpc = "tool"
    /\ LET failed  == {i \in 1..Len(pending) : pending[i].status = "fail"}
           running == {i \in 1..Len(pending) : pending[i].status = "running"}
           at      == AfterTools(provider, conv, res, pending, depth)
       IN  /\ failed # {} \/ running = {}
           /\ hopLog' = [hopLog EXCEPT ![Len(hopLog)].calls = pending]
           /\ IF failed # {} /\ vendorCalls >= MaxVendorCalls
              THEN /\ outcome' = [kind |-> "error",
                                  text |-> pending[CHOOSE i \in failed : TRUE].text]
                   /\ lpc' = "done"
                   /\ UNCHANGED <<conv, depth, vendorCalls>>
              ELSE IF failed # {}
              THEN /\ vendorCalls' = vendorCalls + 1
                   /\ lpc' = "vendor"
                   /\ UNCHANGED <<conv, depth, outcome>>
              ELSE IF at.kind = "throw"
              THEN /\ outcome' = [kind |-> "error", text |-> at.text]
                   /\ lpc' = "done"
                   /\ conv' = at.conv
                   /\ depth' = at.depth
                   /\ UNCHANGED vendorCalls
              ELSE /\ vendorCalls < MaxVendorCalls
                   /\ conv' = at.conv
                   /\ depth' = at.depth
                   /\ vendorCalls' = vendorCalls + 1
                   /\ lpc' = "vendor"
                   /\ UNCHANGED outcome
    /\ UNCHANGED <<gwVars, toolVars, uiVars, clientVars>>
    /\ UNCHANGED <<provider, apiKey, history, toolCalls, toolHops, hopTools,
                   res, pending>>

\* the loop resumes after `await callRandomIntTool` / `await Promise.all`:
\* a rejected call ends the run, otherwise the conversation is extended and
\* the next fetch is issued (or the Claude loop gives up)
ToolsJoin ==
    /\ lpc = "tool"
    /\ LET failed  == {i \in 1..Len(pending) : pending[i].status = "fail"}
           running == {i \in 1..Len(pending) : pending[i].status = "running"}
           at      == AfterTools(provider, conv, res, pending, depth)
       IN  /\ failed # {} \/ running = {}
           /\ hopLog' = [hopLog EXCEPT ![Len(hopLog)].calls = pending]
           /\ IF failed # {}
              THEN /\ outcome' = [kind |-> "error",
                                  text |-> pending[CHOOSE i \in failed : TRUE].text]
                   /\ lpc' = "done"
                   /\ UNCHANGED <<conv, depth, vendorCalls>>
              ELSE IF at.kind = "throw"
              THEN /\ outcome' = [kind |-> "error", text |-> at.text]
                   /\ lpc' = "done"
                   /\ conv' = at.conv
                   /\ depth' = at.depth
                   /\ UNCHANGED vendorCalls
              ELSE /\ vendorCalls < MaxVendorCalls
                   /\ conv' = at.conv
                   /\ depth' = at.depth
                   /\ vendorCalls' = vendorCalls + 1
                   /\ lpc' = "vendor"
                   /\ UNCHANGED outcome
    /\ UNCHANGED <<gwVars, toolVars, uiVars, clientVars>>
    /\ UNCHANGED <<provider, apiKey, history, toolCalls, toolHops, hopTools,
                   res, pending>>

LoopInit ==
    /\ provider \in Providers
    /\ apiKey \in BOOLEAN
    /\ history \in Histories
    /\ lpc = "start"
    /\ conv = <<>>
    /\ depth = 0
    /\ vendorCalls = 0
    /\ toolCalls = 0
    /\ toolHops = 0
    /\ hopTools = 0
    /\ res = NoRes
    /\ pending = <<>>
    /\ hopLog = <<>>
    /\ outcome = NoOutcome

\* the loop variables while only the gateway runs
LoopParked ==
    /\ provider = "OPENAI"
    /\ apiKey = TRUE
    /\ history = <<>>
    /\ lpc = "start"
    /\ conv = <<>>
    /\ depth = 0
    /\ vendorCalls = 0
    /\ toolCalls = 0
    /\ toolHops = 0
    /\ hopTools = 0
    /\ res = NoRes
    /\ pending = <<>>
    /\ hopLog = <<>>
    /\ outcome = NoOutcome

LoopNext ==
    \/ Start
    \/ \E r \in Responses(provider) : VendorReply(r)
    \/ \E i \in 1..Len(pending), out \in ToolOutcomes : ToolReturn(i, out)
    \/ ToolsJoin

----------------------------------------------------------------------------
(* MCP server: the randomInt tool *)

\* `.default(100)` of the tool's parameter schema
DefaultMax == 100

ToolNames == {"randomInt", "unknownTool"}

\* the `max` a tools/call may carry: none, an integer, a number that is not
\* an integer, a string
MaxArgs ==
    {[kind |-> "omitted", val |-> 0], [kind |-> "nonint", val |-> 0],
     [kind |-> "string", val |-> 0]}
    \cup {[kind |-> "int", val |-> v] : v \in -MaxMax..MaxMax}

\* { max: z.number().int().optional().default(100) } applied to the argument
SchemaParse(a) ==
    IF a.kind = "omitted" THEN [ok |-> TRUE, max |-> DefaultMax]
    ELSE IF a.kind = "int" THEN [ok |-> TRUE, max |-> a.val]
    ELSE [ok |-> FALSE, max |-> 0]

\* crypto.randomInt(max) throws a RangeError unless max is above min = 0
RandomIntThrows(max) == max <= 0

\* the values crypto.randomInt(max) may return
RandomIntValues_Inclusive(max) == 0..max

RandomIntValues(max) == 0..(max - 1)

NoToolResult == [kind |-> "none", text |-> ""]

\* the server receives tools/call: the name is looked up, the arguments are
\* parsed against the schema, then the tool body is entered
Invoke(name, a) ==
    /\ tpc = "idle"
    /\ tname' = name
    /\ targ' = a
    /\ IF name # "randomInt"
       THEN /\ tresult' = [kind |-> "unknownTool", text |-> name]
            /\ tpc' = "done"
            /\ UNCHANGED tmax
       ELSE IF ~SchemaParse(a).ok
       THEN /\ tresult' = [kind |-> "invalidArgument", text |-> "max"]
            /\ tpc' = "done"
            /\ UNCHANGED tmax
       ELSE /\ tmax' = SchemaParse(a).max
            /\ tpc' = "body"
            /\ UNCHANGED tresult
    /\ UNCHANGED rngBounds
    /\ UNCHANGED <<gwVars, loopVars, uiVars, clientVars>>

\* the tool body: String(randomInt(max)); an exception of the body becomes
\* an error result of the tool
ToolBody ==
    /\ tpc = "body"
    /\ rngBounds' = Append(rngBounds, tmax)
    /\ IF RandomIntThrows(tmax)
       THEN tresult' = [kind |-> "toolError", text |-> "ERR_OUT_OF_RANGE"]
       ELSE \E n \in RandomIntValues(tmax) :
               tresult' = [kind |-> "ok", text |-> ToStr(n)]
    /\ tpc' = "done"
    /\ UNCHANGED <<tname, targ, tmax>>
    /\ UNCHANGED <<gwVars, loopVars, uiVars, clientVars>>

ToolInit ==
    /\ tpc = "idle"
    /\ tname = "randomInt"
    /\ targ = [kind |-> "omitted", val |-> 0]
    /\ tmax = 0
    /\ tresult = NoToolResult
    /\ rngBounds = <<>>

ToolNext ==
    \/ \E name \in ToolNames, a \in MaxArgs : Invoke(name, a)
    \/ ToolBody

----------------------------------------------------------------------------
(* Frontend: the chat form of App *)

\* what the user may type into the text field
Inputs == {"", " ", "hello", "roll"}

\* input.trim() for the texts above
Trim(t) == IF t = " " THEN "" ELSE t

\* what the awaited chat function may return, and the messages it may throw
Answers == {"hi", NoResponseText}

ErrorMessages == {"quota exceeded", "Too many tool-calling hops"}

NoTurn == [before |-> <<>>, input |-> "", kind |-> "none", text |-> ""]

\* onChange of the text field
SetInput(t) ==
    /\ input # t
    /\ input' = t
    /\ UNCHANGED <<messages, loading, upc, turn>>
    /\ UNCHANGED <<gwVars, loopVars, toolVars, clientVars>>

\* handleSubmit up to its await; the form cannot be submitted while the
\* submit button is disabled (disabled={loading})
Submit ==
    /\ upc = "idle"
    /\ ~loading
    /\ Len(messages) < 2 * MaxTurns
    /\ IF Trim(input) = ""
       THEN UNCHANGED <<messages, input, loading, upc, turn>>
       ELSE /\ messages' = Append(messages, [role |-> "user", content |-> input])
            /\ input' = ""
            /\ loading' = TRUE
            /\ upc' = "chatting"
            /\ turn' = [before |-> messages, input |-> input,
                        kind |-> "running", text |-> ""]
    /\ UNCHANGED <<gwVars, loopVars, toolVars, clientVars>>

\* the awaited chat call returns: try body, then finally
ChatReturn(a) ==
    /\ upc = "chatting"
    /\ messages' = Append(messages, [role |-> "assistant", content |-> a])
    /\ loading' = FALSE
    /\ upc' = "idle"
    /\ turn' = [turn EXCEPT !.kind = "answer", !.text = a]
    /\ UNCHANGED input
    /\ UNCHANGED <<gwVars, loopVars, toolVars, clientVars>>

\* the awaited chat call throws: the error replaces the messages shown
ChatThrow_Replaces(m) ==
    /\ upc = "chatting"
    /\ messages' = <<[role |-> "assistant", content |-> "Error: " \o m]>>
    /\ loading' = FALSE
    /\ upc' = "idle"
    /\ turn' = [turn EXCEPT !.kind = "error", !.text = m]
    /\ UNCHANGED input
    /\ UNCHANGED <<gwVars, loopVars, toolVars, clientVars>>

\* the awaited chat call throws: catch, then finally
ChatThrow(m) ==
    /\ upc = "chatting"
    /\ messages' = Append(messages,
                          [role |-> "assistant", content |-> "Error: " \o m])
    /\ loading' = FALSE
    /\ upc' = "idle"
    /\ turn' = [turn EXCEPT !.kind = "error", !.text = m]
    /\ UNCHANGED input
    /\ UNCHANGED <<gwVars, loopVars, toolVars, clientVars>>

UiInit ==
    /\ messages = <<>>
    /\ input = ""
    /\ loading = FALSE
    /\ upc = "idle"
    /\ turn = NoTurn

UiNext ==
    \/ \E t \in Inputs : SetInput(t)
    \/ Submit
    \/ \E a \in Answers : ChatReturn(a)
    \/ \E m \in ErrorMessages : ChatThrow(m)

----------------------------------------------------------------------------
(* Frontend: getMcpClient *)

\* values of VITE_MCP_ENDPOINT: not defined, a URL, a text `new URL` rejects
Endpoints == {"", "http://localhost:3000/mcp", "/mcp"}

IsUrl(e) == e = "http://localhost:3000/mcp"

Caller(state, client, err, saw) ==
    [state |-> state, client |-> client, err |-> err, saw |-> saw]

\* what a call finds in the module variable
Seen == IF clientPromise = "null" THEN "null" ELSE promiseState

\* one call of getMcpClient; the function has no await, so it runs in one step
GetMcpClient_IgnoresPending ==
    /\ Len(callers) < MaxCalls
    /\ IF clientPromise # "null" /\ promiseState # "pending"
       THEN /\ callers' = Append(callers, Caller("awaiting", 0, "", Seen))
            /\ UNCHANGED <<clientPromise, promiseState, promiseClient,
                           clientsMade, connects>>
       ELSE /\ clientsMade' = clientsMade + 1
            /\ IF endpoint = ""
               THEN /\ callers' = Append(callers,
                          Caller("error", 0, "VITE_MCP_ENDPOINT is not defined", Seen))
                    /\ UNCHANGED <<clientPromise, promiseState, promiseClient, connects>>
               ELSE IF ~IsUrl(endpoint)
               THEN /\ callers' = Append(callers, Caller("error", 0, "Invalid URL", Seen))
                    /\ UNCHANGED <<clientPromise, promiseState, promiseClient, connects>>
               ELSE /\ connects' = connects + 1
                    /\ clientPromise' = "set"
                    /\ promiseState' = "pending"
                    /\ promiseClient' = clientsMade + 1
                    /\ callers' = Append(callers, Caller("awaiting", 0, "", Seen))
    /\ UNCHANGED endpoint
    /\ UNCHANGED <<gwVars, loopVars, toolVars, uiVars>>

GetMcpClient ==
    /\ Len(callers) < MaxCalls
    /\ IF clientPromise # "null"
       THEN /\ callers' = Append(callers, Caller("awaiting", 0, "", Seen))
            /\ UNCHANGED <<clientPromise, promiseState, promiseClient,
                           clientsMade, connects>>
       ELSE /\ clientsMade' = clientsMade + 1
            /\ IF endpoint = ""
               THEN /\ callers' = Append(callers,
                          Caller("error", 0, "VITE_MCP_ENDPOINT is not defined", Seen))
                    /\ UNCHANGED <<clientPromise, promiseState, promiseClient, connects>>
               ELSE IF ~IsUrl(endpoint)
               THEN /\ callers' = Append(callers, Caller("error", 0, "Invalid URL", Seen))
                    /\ UNCHANGED <<clientPromise, promiseState, promiseClient, connects>>
               ELSE /\ connects' = connects + 1
                    /\ clientPromise' = "set"
                    /\ promiseState' = "pending"
                    /\ promiseClient' = clientsMade + 1
                    /\ callers' = Append(callers, Caller("awaiting", 0, "", Seen))
    /\ UNCHANGED endpoint
    /\ UNCHANGED <<gwVars, loopVars, toolVars, uiVars>>

\* client.connect(transport) resolves
ConnectResolve ==
    /\ promiseState = "pending"
    /\ promiseState' = "fulfilled"
    /\ UNCHANGED <<endpoint, clientPromise, promiseClient, clientsMade,
                   connects, callers>>
    /\ UNCHANGED <<gwVars, loopVars, toolVars, uiVars>>

\* client.connect(transport) rejects, and the cache is cleared
ConnectReject_ClearsCache ==
    /\ promiseState = "pending"
    /\ promiseState' = "rejected"
    /\ clientPromise' = "null"
    /\ UNCHANGED <<endpoint, promiseClient, clientsMade, connects, callers>>
    /\ UNCHANGED <<gwVars, loopVars, toolVars, uiVars>>

\* client.connect(transport) rejects: nothing handles it
ConnectReject ==
    /\ promiseState = "pending"
    /\ promiseState' = "rejected"
    /\ UNCHANGED <<endpoint, clientPromise, promiseClient, clientsMade,
                   connects, callers>>
    /\ UNCHANGED <<gwVars, loopVars, toolVars, uiVars>>

\* the await of one caller settles with the promise
CallerSettle(i) ==
    /\ i \in 1..Len(callers)
    /\ callers[i].state = "awaiting"
    /\ promiseState \in {"fulfilled", "rejected"}
    /\ callers' = [callers EXCEPT ![i] =
                     IF promiseState = "fulfilled"
                     THEN [@ EXCEPT !.state = "client", !.client = promiseClient]
                     ELSE [@ EXCEPT !.state = "error", !.err = "connect failed"]]
    /\ UNCHANGED <<endpoint, clientPromise, promiseState, promiseClient,
                   clientsMade, connects>>
    /\ UNCHANGED <<gwVars, loopVars, toolVars, uiVars>>

\* `let clientPromise = null` and an endpoint that is a URL
ClientParked ==
    /\ endpoint = "http://localhost:3000/mcp"
    /\ clientPromise = "null"
    /\ promiseState = "none"
    /\ promiseClient = 0
    /\ clientsMade = 0
    /\ connects = 0
    /\ callers = <<>>

ClientInit ==
    /\ endpoint \in Endpoints
    /\ clientPromise = "null"
    /\ promiseState = "none"
    /\ promiseClient = 0
    /\ clientsMade = 0
    /\ connects = 0
    /\ callers = <<>>

ClientNext ==
    \/ GetMcpClient
    \/ ConnectResolve
    \/ ConnectReject
    \/ \E i \in 1..MaxCalls : CallerSettle(i)

----------------------------------------------------------------------------
(* Specifications *)

\* the gateway alone: no conversation turn runs
GatewaySpecInit == GatewayInit /\ LoopParked /\ ToolInit /\ UiInit /\ ClientParked

GatewaySpec == GatewaySpecInit /\ [][GatewayNext]_vars

\* the gateway when every awaited call settles: the body read of a POST
\* completes and handleRequest resolves or rejects
GatewayFairSpec ==
    /\ GatewaySpecInit
    /\ [][GatewayNext]_vars
    /\ \A r \in ReqIds :
          /\ WF_vars(PostResume(r))
          /\ WF_vars((\E rep \in {"dispatched", "protocolError", "stream"} :
                          HandleRequestReturn(r, rep))
                      \/ HandleRequestThrow(r))

\* one conversation turn alone: the gateway receives nothing
LoopSpecInit == LoopInit /\ GatewayInit /\ ToolInit /\ UiInit /\ ClientParked

LoopSpec == LoopSpecInit /\ [][LoopNext]_vars

\* one tools/call on the MCP server alone
ToolSpecInit == ToolInit /\ GatewayInit /\ LoopParked /\ UiInit /\ ClientParked

ToolSpec == ToolSpecInit /\ [][ToolNext]_vars

\* the chat form alone
UiSpecInit == UiInit /\ GatewayInit /\ LoopParked /\ ToolInit /\ ClientParked

UiSpec == UiSpecInit /\ [][UiNext]_vars

\* the getMcpClient calls of one page alone
ClientSpecInit == ClientInit /\ GatewayInit /\ LoopParked /\ ToolInit /\ UiInit

ClientSpec == ClientSpecInit /\ [][ClientNext]_vars

----------------------------------------------------------------------------
(* Gateway: properties *)

\* the transports ever constructed for identifier sid
ConstructedFor(sid) == {i \in 1..Len(constructed) : constructed[i].sid = sid}

\* the transports request r caused to be constructed
ConstructedBy(r) == {i \in 1..Len(constructed) : constructed[i].by = r}

PastLookup(r) == reqs[r].pc \in {"handling", "done"}

\* two POSTs that both arrived with the same identifier before it was registered
ConcurrentFirstContact(r1, r2) ==
    /\ r1 # r2
    /\ reqs[r1].verb = "POST" /\ reqs[r2].verb = "POST"
    /\ reqs[r1].header # Absent /\ reqs[r1].header = reqs[r2].header
    /\ reqs[r1].fresh /\ reqs[r2].fresh
    /\ PastLookup(r1) /\ PastLookup(r2)

\* C1: two concurrent first-contact POSTs bearing the same fresh identifier
\* leave exactly one transport constructed and registered for it, and both
\* requests are forwarded to that one transport.
C1_OneTransportForConcurrentFirstContact ==
    \A r1, r2 \in ReqIds :
        ConcurrentFirstContact(r1, r2) =>
            /\ Cardinality(ConstructedFor(reqs[r1].header)) = 1
            /\ reqs[r1].tr # Undefined
            /\ reqs[r1].tr = reqs[r2].tr
            /\ transports[reqs[r1].header] = reqs[r1].tr

\* The part of C1 that the code does guarantee: for an identifier that is not
\* an inherited property name the check and the insertion are one step.
C1_HoldsForOwnKeys ==
    \A r1, r2 \in ReqIds :
        (ConcurrentFirstContact(r1, r2) /\ reqs[r1].header \notin ObjectPrototypeKeys) =>
            /\ Cardinality(ConstructedFor(reqs[r1].header)) = 1
            /\ reqs[r1].tr # Undefined
            /\ reqs[r1].tr = reqs[r2].tr
            /\ transports[reqs[r1].header] = reqs[r1].tr

\* C2: at most one transport is ever made per identifier; a registered
\* transport is never replaced or removed; every request that reaches a
\* transport reaches the one constructed first for its identifier.
C2_OneTransportPerIdentifier ==
    /\ \A i \in 1..Len(constructed) : transports[constructed[i].sid] = i
    /\ \A s \in Sids : Cardinality(ConstructedFor(s)) <= 1
    /\ \A r \in ReqIds :
          reqs[r].tr # Undefined =>
              /\ reqs[r].tr \in ConstructedFor(reqs[r].sid)
              /\ transports[reqs[r].sid] = reqs[r].tr

\* a POST created the transport of a session and a later GET and a later
\* POST-or-GET of another request were forwarded to that same transport
C2_Witness ==
    \E r1, r2 \in ReqIds :
        /\ r1 # r2
        /\ reqs[r1].verb = "POST" /\ reqs[r1].tr \in ConstructedBy(r1)
        /\ reqs[r1].pc = "done"
        /\ reqs[r2].verb = "GET" /\ reqs[r2].tr = reqs[r1].tr
        /\ reqs[r2].pc = "done"

\* C3: a GET whose identifier is absent or was never registered answers
\* Bad Session (400), reaches no transport and creates none.
C3_GetUnknownIsBadSession ==
    \A r \in ReqIds :
        (reqs[r].verb = "GET" /\ ~reqs[r].known) =>
            /\ reqs[r].resp = "badSession400"
            /\ reqs[r].tr = Undefined
            /\ ConstructedBy(r) = {}

\* C4 as stated: a request that reaches a transport either had its identifier
\* allocated by the gateway just now or presented a registered one; requests
\* with an unknown non-empty identifier reach no transport.
C4_UnknownIdentifierRejected ==
    \A r \in ReqIds :
        reqs[r].tr # Undefined => (reqs[r].sidHeader # Absent \/ reqs[r].known)

\* C4 as amended: a request that reaches a transport reaches the one
\* registered under its resolved identifier; for a GET the identifier was
\* registered before the request, for a POST it was registered before or is
\* registered by this very POST (allocated or client-presented); a GET with
\* an unregistered identifier reaches no transport and creates none.
C4_ReachesRegisteredOrOwnTransport ==
    \A r \in ReqIds :
        /\ reqs[r].tr # Undefined =>
              /\ transports[reqs[r].sid] = reqs[r].tr
              /\ \/ reqs[r].known
                 \/ reqs[r].verb = "POST" /\ reqs[r].tr \in ConstructedBy(r)
        /\ reqs[r].known => ConstructedBy(r) = {}
        /\ (reqs[r].verb = "GET" /\ ~reqs[r].known) =>
              reqs[r].tr = Undefined /\ ConstructedBy(r) = {}

\* a POST presenting an unknown identifier of its own was forwarded to a
\* transport made for it, and a GET with an unregistered identifier was not
C4_Witness ==
    \E r1, r2 \in ReqIds :
        /\ reqs[r1].verb = "POST" /\ reqs[r1].header # Absent /\ ~reqs[r1].known
        /\ reqs[r1].tr \in ConstructedBy(r1)
        /\ reqs[r2].verb = "GET" /\ reqs[r2].sid # Absent /\ ~reqs[r2].known
        /\ reqs[r2].pc = "done"

\* the identifier a request presents (a POST without one belongs to no
\* session that another request could name before it is handled)
SessionOf(r) == IF reqs[r].verb = "POST" THEN reqs[r].header ELSE reqs[r].sid

\* C6: within one session requests are handled in arrival order and without
\* overlap: no two handleRequest calls are in flight on one transport, and a
\* request is handed to the transport only once every earlier request of
\* its session has completed or failed.
C6_NoOverlapWithinSession ==
    \A r1, r2 \in ReqIds :
        /\ (r1 # r2 /\ reqs[r1].pc = "handling" /\ reqs[r2].pc = "handling") =>
               reqs[r1].tr # reqs[r2].tr
        /\ (r1 < r2 /\ SessionOf(r1) # Absent /\ SessionOf(r1) = SessionOf(r2)
               /\ reqs[r2].pc = "handling") =>
               reqs[r1].pc = "done"

----------------------------------------------------------------------------
(* Tool-calling loops: properties *)

\* the tool results in the message the loop appended last
ResultsAppended ==
    IF provider = "OPENAI" THEN 1
    ELSE Len(SelectSeq(conv[Len(conv)].parts, IsDefined))

\* the final answer text of response r is empty or absent
AnswerTextEmpty(p, r) ==
    IF p = "OPENAI" THEN r.content \in {Null, ""}
    ELSE JoinText(SelectSeq(r.parts, IsText)) = ""

\* C5: no run of any provider loop performs more than 3 tool-calling hops
\* (a 4th consecutive tool request is never executed).
C5_AtMostThreeToolHops == toolHops <= ClaudeDepthLimit

\* C7: a final answer is never returned from a vendor response that
\* contains a tool-invocation request.
C7_NoAnswerFromToolRequest ==
    outcome.kind = "answer" => Len(ToolParts(res)) = 0

\* C8: when the run goes on to the next hop, every tool-invocation request
\* of the response just handled has been answered (none silently dropped).
C8_NoRequestDropped ==
    (lpc = "vendor" /\ vendorCalls > 1) => Len(ToolParts(res)) = ResultsAppended

\* C9 as stated: at most one tool execution per hop, in every provider loop.
C9_OneToolPerHop == hopTools <= 1

\* C9 as amended: the OpenAI and Gemini loops execute at most one tool per
\* hop, the first request of the response; the Claude loop executes every
\* randomInt tool_use block of a response whose stop_reason is tool_use.
C9_OneToolPerHopExceptClaude ==
    /\ provider \in {"OPENAI", "GEMINI"} =>
          /\ hopTools <= 1
          /\ hopTools = 1 => /\ IsRandomInt(ToolParts(res)[1])
                             /\ Len(pending) = 1
                             /\ pending[1].id = ToolParts(res)[1].id
    /\ provider = "CLAUDE" =>
          hopTools = IF res.ok /\ res.stop = "tool_use"
                     THEN Len(SelectSeq(res.parts, IsRandomInt))
                     ELSE 0

\* an OpenAI or Gemini response with several tool requests: one was executed
C9_Witness ==
    /\ provider \in {"OPENAI", "GEMINI"}
    /\ Len(ToolParts(res)) >= 2
    /\ lpc = "tool"
    /\ hopTools = 1
    /\ pending[1].status = "ok"

\* C10: a final response without answer text makes the run return the
\* placeholder "(no response)".
C10_EmptyAnswerIsPlaceholder ==
    (outcome.kind = "answer" /\ Len(ToolParts(res)) = 0
        /\ AnswerTextEmpty(provider, res))
    => outcome.text = NoResponseText

\* C11: the tool-result message the loop appends and sends with the next
\* vendor request carries the correlation token of the invocation it
\* answers (OpenAI tool_call_id = call.id, Claude tool_use_id = block id,
\* Gemini: the functionResponse names the function of the call that the
\* preceding model message repeats).
C11_TokenPreserved ==
    (lpc = "vendor" /\ vendorCalls > 1) =>
        LET asked  == conv[Len(conv) - 1]
            answer == conv[Len(conv)]
            uses   == ToolParts(res)
        IN  IF provider = "OPENAI"
            THEN /\ asked.parts = uses
                 /\ answer.role = "tool"
                 /\ answer.tok = uses[1].id
            ELSE IF provider = "GEMINI"
            THEN /\ asked.parts = <<uses[1]>>
                 /\ Len(answer.parts) = 1
                 /\ answer.parts[1].type = "functionResponse"
                 /\ answer.parts[1].name = uses[1].name
            ELSE /\ ToolParts(asked) = uses
                 /\ Len(answer.parts) = Len(uses)
                 /\ \A i \in 1..Len(uses) :
                       /\ answer.parts[i].type = "tool_result"
                       /\ answer.parts[i].id = uses[i].id

\* a Claude run resubmitted the results of two tool_use blocks
C11_Witness ==
    /\ provider = "CLAUDE"
    /\ lpc = "vendor"
    /\ vendorCalls > 1
    /\ Len(ToolParts(res)) = 2
    /\ conv[Len(conv)].parts[2].id = "c2"

----------------------------------------------------------------------------
(* Tool-calling loops: further properties *)

\* the arguments a tool-invocation request carries: the parsed JSON string
\* of an OpenAI tool call, the args / input object of the others
SuppliedArgs(p, u) == IF p = "OPENAI" THEN JsonParseArgs(u.text).max ELSE u.num

\* response r asks for randomInt once and for nothing else
SingleRandomIntRequest(p, r) ==
    /\ r.ok /\ r.present
    /\ p = "CLAUDE" => r.stop = "tool_use"
    /\ Len(ToolParts(r)) = 1
    /\ ToolParts(r)[1].name = "randomInt"

\* the text of r when r is a final answer: the vendor's answer text
AnswerText(p, r) ==
    IF p = "OPENAI" THEN r.content ELSE JoinText(SelectSeq(r.parts, IsText))

NonEmptyFinalAnswer(p, r) ==
    /\ r.ok /\ r.present
    /\ p = "CLAUDE" => r.stop # "tool_use"
    /\ Len(ToolParts(r)) = 0
    /\ AnswerText(p, r) \notin {Null, ""}

\* a finished run of two hops: a single randomInt request, then an answer
TwoHopScenario ==
    /\ lpc = "done"
    /\ Len(hopLog) = 2
    /\ SingleRandomIntRequest(provider, hopLog[1].res)
    /\ NonEmptyFinalAnswer(provider, hopLog[2].res)

\* what the scenario leaves behind apart from the form of the tool result
\* in the second request
TwoHopCounts ==
    /\ vendorCalls = 2
    /\ toolCalls = 1
    /\ Len(hopLog[1].calls) = 1
    /\ hopLog[1].calls[1].status = "ok"
    /\ hopLog[1].calls[1].num = SuppliedArgs(provider, ToolParts(hopLog[1].res)[1])
    /\ Len(hopLog[2].sent) = Len(hopLog[1].sent) + 2
    /\ SubSeq(hopLog[2].sent, 1, Len(hopLog[1].sent)) = hopLog[1].sent
    /\ hopLog[2].calls = <<>>
    /\ outcome = [kind |-> "answer", text |-> AnswerText(provider, hopLog[2].res)]

\* the tool-result message of the second request
SecondRequestResult == hopLog[2].sent[Len(hopLog[2].sent)]

\* C17 as stated: in the two-hop scenario every loop makes two vendor calls
\* and one tool call with the vendor's arguments, puts the tool's result
\* text into the second request and returns the second answer unchanged.
C17_ResultTextInSecondRequest ==
    TwoHopScenario =>
        /\ TwoHopCounts
        /\ LET text == hopLog[1].calls[1].text
               m    == SecondRequestResult
           IN  IF provider = "OPENAI" THEN m.text = text
               ELSE IF provider = "GEMINI" THEN ToStr(m.parts[1].num) = text
               ELSE m.parts[1].text = text

\* C17: in the two-hop scenario every loop makes two vendor calls and one
\* tool call with the vendor's arguments and returns the second answer
\* unchanged; the second request carries the tool's result, as its text in
\* the OpenAI and Claude loops and as the number Number(text) in the Gemini
\* loop (0 for an empty text).
C17_ResultInSecondRequest ==
    TwoHopScenario =>
        /\ TwoHopCounts
        /\ LET text == hopLog[1].calls[1].text
               m    == SecondRequestResult
           IN  IF provider = "OPENAI" THEN m.role = "tool" /\ m.text = text
               ELSE IF provider = "GEMINI"
               THEN /\ m.parts[1].type = "functionResponse"
                    /\ m.parts[1].num = NumberOf(text)
                    /\ text = "7" => ToStr(m.parts[1].num) = text
               ELSE m.parts[1].type = "tool_result" /\ m.parts[1].text = text

\* the Gemini loop finished the scenario after the tool returned no text
C17_Witness ==
    /\ TwoHopScenario
    /\ provider = "GEMINI"
    /\ hopLog[1].calls[1].text = ""
    /\ SecondRequestResult.parts[1].num = 0
    /\ outcome.text = "hi"

RECURSIVE StartedIn(_)
\* the tool calls started in the logged hops
StartedIn(log) ==
    IF log = <<>> THEN 0
    ELSE Len(SelectSeq(Head(log).calls, LAMBDA c : c.status # "skipped"))
            + StartedIn(Tail(log))

----------------------------------------------------------------------------
(* Gateway: further properties *)

\* C12: every request the gateway received eventually has a terminal
\* response, also when handleRequest rejects.
C12_EveryRequestAnswered ==
    \A r \in ReqIds :
        (reqs[r].pc # "idle") ~> (reqs[r].pc = "done" /\ reqs[r].resp # "none")

\* a request whose handleRequest rejected was answered
C12_Witness ==
    \E r \in ReqIds :
        /\ reqs[r].pc = "done"
        /\ reqs[r].tr # Undefined
        /\ reqs[r].resp = "error500"

\* C13: a POST without identifier gets a freshly allocated one, not
\* registered before and different from every other allocation; it is set as
\* the Mcp-Session-Id response header, a transport is registered under it
\* and the body is forwarded to that transport. A POST that presents an
\* identifier uses it unchanged and allocates none.
C13_PostAllocatesOnlyWhenAbsent ==
    /\ uuidNext = Cardinality({r \in ReqIds : /\ reqs[r].verb = "POST"
                                              /\ reqs[r].header = Absent
                                              /\ PastLookup(r)})
    /\ \A r \in ReqIds :
          (reqs[r].verb = "POST" /\ PastLookup(r)) =>
              IF reqs[r].header = Absent
              THEN /\ reqs[r].sid \in Uuids
                   /\ ~reqs[r].known
                   /\ reqs[r].sidHeader = reqs[r].sid
                   /\ reqs[r].tr \in ConstructedBy(r)
                   /\ transports[reqs[r].sid] = reqs[r].tr
                   /\ reqs[r].body \in {"json", "{}"}
                   /\ \A q \in ReqIds :
                         (q # r /\ reqs[q].verb = "POST" /\ reqs[q].header = Absent
                              /\ PastLookup(q)) => reqs[q].sid # reqs[r].sid
              ELSE /\ reqs[r].sid = reqs[r].header
                   /\ reqs[r].sidHeader = Absent

\* a POST without identifier was answered by the transport made for it
C13_Witness ==
    \E r \in ReqIds :
        /\ reqs[r].verb = "POST" /\ reqs[r].header = Absent
        /\ reqs[r].pc = "done" /\ reqs[r].resp = "transport"
        /\ reqs[r].sidHeader = UuidPool[1]

\* C14: on GET the `session` query parameter, when present, is the
\* identifier looked up and written to the forwarded header; the inbound
\* header is used only when the query parameter is absent.
C14_QueryParameterWins ==
    \A r \in ReqIds :
        reqs[r].verb = "GET" =>
            /\ reqs[r].query # Absent => reqs[r].sid = reqs[r].query
            /\ reqs[r].query = Absent => reqs[r].sid = reqs[r].header
            /\ reqs[r].tr # Undefined =>
                  /\ reqs[r].fwdHeader = reqs[r].sid
                  /\ reqs[r].tr = transports[reqs[r].sid]

\* a GET naming a registered session in the query and another identifier
\* in the header was forwarded to the query's session
C14_Witness ==
    \E r \in ReqIds :
        /\ reqs[r].verb = "GET"
        /\ reqs[r].query # Absent /\ reqs[r].header # Absent
        /\ reqs[r].query # reqs[r].header
        /\ reqs[r].tr # Undefined
        /\ reqs[r].fwdHeader = reqs[r].query

\* C20: a step of a request with resolved identifier s changes at most the
\* transports entry of s, whether the request succeeds or fails.
C20_OtherSessionsUntouched ==
    [][\A s \in Sids :
          transports'[s] # transports[s] =>
              \E r \in ReqIds : reqs'[r] # reqs[r] /\ reqs'[r].sid = s]_vars

\* two sessions are registered, the request of one failed in its transport,
\* the other's entry is in place
C20_Witness ==
    \E r1, r2 \in ReqIds :
        /\ reqs[r1].tr # Undefined /\ reqs[r2].tr # Undefined
        /\ reqs[r1].sid # reqs[r2].sid
        /\ reqs[r1].resp = "error500"
        /\ transports[reqs[r2].sid] = reqs[r2].tr
        /\ transports[reqs[r1].sid] = reqs[r1].tr

----------------------------------------------------------------------------
(* MCP server and chat form: properties *)

C16_NonPositiveMaxRejectedByValidation ==
    /\ \A i \in 1..Len(rngBounds) : rngBounds[i] >= 1
    /\ tpc = "done" =>
          /\ (tname = "randomInt" /\ targ.kind = "int" /\ targ.val \in {0, -5}) =>
                tresult.kind = "invalidArgument" /\ rngBounds = <<>>
          /\ tname # "randomInt" => tresult.kind = "unknownTool"

\* C19: after a turn that failed inside handleSubmit the message list is
\* the list before the turn followed by the user's message and one assistant
\* entry "Error: <message>"; once handleSubmit has finished, on either path,
\* loading is false.
C19_FailedTurnAppendsTwo ==
    /\ upc = "idle" => ~loading
    /\ upc = "chatting" => loading
    /\ (upc = "idle" /\ turn.kind = "error") =>
          /\ Len(messages) = Len(turn.before) + 2
          /\ SubSeq(messages, 1, Len(turn.before)) = turn.before
          /\ messages[Len(messages) - 1] = [role |-> "user", content |-> turn.input]
          /\ messages[Len(messages)] =
                [role |-> "assistant", content |-> "Error: " \o turn.text]
    /\ (upc = "idle" /\ turn.kind = "answer") =>
          messages = turn.before \o <<[role |-> "user", content |-> turn.input],
                                     [role |-> "assistant", content |-> turn.text]>>

\* the second turn failed after a first turn that was answered
C19_Witness ==
    /\ upc = "idle" /\ ~loading
    /\ turn.kind = "error"
    /\ Len(turn.before) = 2
    /\ Len(messages) = 4
    /\ messages[4].content = "Error: quota exceeded"

----------------------------------------------------------------------------
(* Tool-calling loops: conversation state, hop limit, API key *)

\* the vendor's message of response r as the conversation would hold it
VendorMessage(p, r) ==
    IF p = "OPENAI" THEN Msg("assistant", r.content, ToolParts(r), "")
    ELSE IF p = "GEMINI" THEN Msg("model", Null, r.parts, "")
    ELSE Msg("assistant", Null, r.parts, "")

\* the tool-requesting message each loop appends
EchoedMessage(p, r) ==
    IF p = "GEMINI" THEN Msg("model", Null, <<ToolParts(r)[1]>>, "")
    ELSE VendorMessage(p, r)

IsToolResultMessage(p, m) ==
    IF p = "OPENAI" THEN m.role = "tool" /\ m.parts = <<>>
    ELSE IF p = "GEMINI"
    THEN m.role = "tool" /\ Len(m.parts) = 1 /\ m.parts[1].type = "functionResponse"
    ELSE /\ m.role = "user" /\ Len(m.parts) >= 1
         /\ \A i \in 1..Len(m.parts) : m.parts[i].type = "tool_result"

\* the first request holds the history in order and then the user prompt
SeedKept ==
    Len(hopLog) >= 1 =>
        LET first == hopLog[1].sent
            off   == IF provider = "OPENAI" THEN 1 ELSE 0
        IN  /\ Len(first) = off + Len(history) + 1
            /\ \A i \in 1..Len(history) :
                  /\ first[off + i].role = history[i].role
                  /\ first[off + i].text = history[i].content
            /\ first[Len(first)].role = "user"
            /\ first[Len(first)].text = UserPrompt

\* the conversation of each request, and the one about to be sent
SentLists ==
    [k \in 1..Len(hopLog) |-> hopLog[k].sent]
        \o (IF lpc = "vendor" /\ Len(hopLog) >= 1 THEN <<conv>> ELSE <<>>)

\* C21 as stated: each request's list is the previous one extended by the
\* vendor's tool-requesting message and the tool-result message.
C21_ExtendedByVendorMessage ==
    /\ SeedKept
    /\ \A k \in 1..(Len(SentLists) - 1) :
          LET a == SentLists[k]
              b == SentLists[k + 1]
          IN  /\ Len(b) = Len(a) + 2
              /\ SubSeq(b, 1, Len(a)) = a
              /\ b[Len(a) + 1] = VendorMessage(provider, hopLog[k].res)
              /\ IsToolResultMessage(provider, b[Len(b)])

\* C21: each request's list is the previous one extended by exactly two
\* messages, the tool-requesting message (the vendor's message in the OpenAI
\* and Claude loops, a model message holding only the first functionCall
\* part in the Gemini loop) and the tool-result message; history and prompt
\* stay in place.
C21_AppendOnly ==
    /\ SeedKept
    /\ \A k \in 1..(Len(SentLists) - 1) :
          LET a == SentLists[k]
              b == SentLists[k + 1]
          IN  /\ Len(b) = Len(a) + 2
              /\ SubSeq(b, 1, Len(a)) = a
              /\ b[Len(a) + 1] = EchoedMessage(provider, hopLog[k].res)
              /\ IsToolResultMessage(provider, b[Len(b)])

\* a third request was sent after two tool hops, with a history
C21_Witness ==
    /\ Len(hopLog) = 3
    /\ history # <<>>
    /\ Len(hopLog[3].sent) = Len(hopLog[1].sent) + 4
    /\ provider = "GEMINI"
    /\ Len(hopLog[1].res.parts) = 2

\* C24: the Claude loop makes at most 3 vendor calls; after tool requests on
\* all 3 hops it throws "Too many tool-calling hops" right after the third
\* hop's tools, whose result is appended but never sent; an answer is
\* returned only from hop 1, 2 or 3.
C24_ClaudeThreeVendorCalls ==
    provider = "CLAUDE" =>
        /\ vendorCalls <= 3
        /\ outcome.kind = "answer" => Len(hopLog) \in 1..3
        /\ outcome = [kind |-> "error", text |-> "Too many tool-calling hops"] =>
              /\ lpc = "done"
              /\ Len(hopLog) = 3 /\ vendorCalls = 3
              /\ \A k \in 1..3 : hopLog[k].res.stop = "tool_use"
              /\ conv = hopLog[3].sent
                          \o <<VendorMessage("CLAUDE", hopLog[3].res),
                               Msg("user", Null, ClaudeToolResults(hopLog[3].calls), "")>>
        /\ (/\ lpc = "done" /\ Len(hopLog) = 3
            /\ \A i \in 1..Len(hopLog[3].calls) : hopLog[3].calls[i].status = "ok"
            /\ Len(hopLog[3].calls) >= 1) =>
              outcome = [kind |-> "error", text |-> "Too many tool-calling hops"]

\* the Claude run gave up after three tool hops
C24_Witness ==
    /\ provider = "CLAUDE"
    /\ lpc = "done"
    /\ vendorCalls = 3 /\ toolHops = 3
    /\ outcome.text = "Too many tool-calling hops"
    /\ Len(conv) = Len(hopLog[3].sent) + 2

\* C25: when the Claude loop raises "Unhandled tool(s)", every randomInt
\* block of that response had its tool call started and awaited, and the
\* conversation was not extended for the hop.
C25_UnhandledAfterToolCalls ==
    (provider = "CLAUDE" /\ outcome = [kind |-> "error",
                                       text |-> "Unhandled tool(s): other"]) =>
        LET last == hopLog[Len(hopLog)]
            uses == ToolParts(last.res)
        IN  /\ lpc = "done"
            /\ Len(last.calls) = Len(uses)
            /\ \A i \in 1..Len(uses) :
                  IF uses[i].name = "randomInt"
                  THEN last.calls[i].status = "ok"
                  ELSE last.calls[i].status = "skipped"
            /\ hopTools = Cardinality({i \in 1..Len(uses) : uses[i].name = "randomInt"})
            /\ toolCalls = StartedIn(hopLog)
            /\ conv = last.sent

\* a response with a randomInt block and another block ended the run after
\* the randomInt call had returned
C25_Witness ==
    /\ provider = "CLAUDE"
    /\ outcome.text = "Unhandled tool(s): other"
    /\ Len(hopLog[Len(hopLog)].calls) = 2
    /\ hopTools = 1
    /\ \E i \in 1..2 : hopLog[Len(hopLog)].calls[i].status = "ok"

\* C27: without the provider's API key the run fails with
\* "<KEY NAME> is not set" before any vendor call and any tool call.
C27_ApiKeyCheckedFirst ==
    ~apiKey =>
        /\ lpc \in {"start", "done"}
        /\ vendorCalls = 0 /\ toolCalls = 0 /\ hopLog = <<>> /\ conv = <<>>
        /\ lpc = "done" =>
              /\ outcome.kind = "error"
              /\ provider = "OPENAI" => outcome.text = "VITE_OPENAI_API_KEY is not set"
              /\ provider = "GEMINI" => outcome.text = "VITE_GEMINI_API_KEY is not set"
              /\ provider = "CLAUDE" => outcome.text = "VITE_CLAUDE_API_KEY is not set"

\* the Claude run ended on the missing key
C27_Witness ==
    /\ ~apiKey /\ provider = "CLAUDE" /\ lpc = "done"
    /\ outcome.text = "VITE_CLAUDE_API_KEY is not set"

----------------------------------------------------------------------------
(* Gateway: malformed bodies *)

\* what C23 says of request r
MalformedPostHandled(r) ==
    /\ reqs[r].body = "{}"
    /\ reqs[r].tr # Undefined
    /\ reqs[r].reply # "dispatched"
    /\ (reqs[r].pc = "done" /\ reqs[r].resp = "transport") =>
          reqs[r].reply = "protocolError"
    /\ reqs[r].header = Absent =>
          /\ reqs[r].sid \in Uuids
          /\ ~reqs[r].known
          /\ reqs[r].sidHeader = reqs[r].sid
          /\ reqs[r].tr \in ConstructedBy(r)
          /\ transports[reqs[r].sid] = reqs[r].tr

\* C23: a POST whose body is not valid JSON is forwarded to the transport
\* with {} as body and answered with a protocol error, without a service
\* invocation; when it has no identifier a fresh one is allocated and a new
\* transport is registered for it.
C23_MalformedBodyForwardedAsEmpty ==
    \A r \in ReqIds :
        (reqs[r].verb = "POST" /\ reqs[r].raw = "malformed" /\ PastLookup(r)) =>
            MalformedPostHandled(r)

\* The part of C23 that the code does guarantee: identifiers that are not
\* inherited property names.
C23_HoldsForOwnKeys ==
    \A r \in ReqIds :
        (/\ reqs[r].verb = "POST" /\ reqs[r].raw = "malformed" /\ PastLookup(r)
         /\ reqs[r].header \notin ObjectPrototypeKeys) =>
            MalformedPostHandled(r)

----------------------------------------------------------------------------
(* Frontend: properties of getMcpClient *)

\* every caller that received a client received the same one
SameClientForAll ==
    \A i, j \in 1..Len(callers) :
        (callers[i].state = "client" /\ callers[j].state = "client") =>
            /\ callers[i].client = callers[j].client
            /\ callers[i].client = promiseClient

C26_RejectionStaysCached ==
    /\ promiseState = "rejected" =>
          /\ clientPromise = "set"
          /\ clientsMade = 1 /\ connects = 1
          /\ \A i \in 1..Len(callers) :
                /\ callers[i].state # "client"
                /\ callers[i].state = "error" => callers[i].err = "connect failed"
    /\ \A i \in 1..Len(callers) :
          callers[i].err \in {"VITE_MCP_ENDPOINT is not defined", "Invalid URL"} =>
              /\ clientPromise = "null"
              /\ callers[i].saw = "null"
              /\ clientsMade = Len(callers)
    /\ endpoint = "" =>
          \A i \in 1..Len(callers) :
              callers[i] = Caller("error", 0, "VITE_MCP_ENDPOINT is not defined", "null")

\* a call made after the connect had failed received the same rejection
C26_Witness ==
    /\ promiseState = "rejected"
    /\ \E i \in 1..Len(callers) :
          /\ callers[i].saw = "rejected"
          /\ callers[i].state = "error"
          /\ callers[i].err = "connect failed"
    /\ clientsMade = 1

====
